---- MODULE Spec2Model ----
(***************************************************************************)
(* Model of scripts/gen_index.py: one run of main() reads index.md,        *)
(* rebuilds the `resources` list of its front matter from the image files  *)
(* of the directory and rewrites the file.                                 *)
(*                                                                         *)
(* Text is a sequence of tokens.  A token stands for a piece of text:      *)
(*   "D"  the three characters ---        "n"  a line break                *)
(*   "s"  a space                         "a"  a letter                    *)
(*   "E"  a control character (BEL): not whitespace, rejected by the YAML  *)
(*        reader wherever it stands                                        *)
(*   "Y"  the block of lines yaml.dump writes for the mapping in field v   *)
(* YAML values are records [k, s, n, l] (kind, string, integer, list) so   *)
(* that values of different Python types can be compared.                  *)
(***************************************************************************)
EXTENDS Integers, Sequences, FiniteSets, TLC

VARIABLES
  dir,       \* the names of the entries of the directory (index.md apart)
  pillow,    \* whether `from PIL import Image` succeeds on this machine
  yaml,      \* whether `import yaml` succeeds on this machine
  isdir,     \* whether the target path exists and is a directory
  manifest,  \* index.md: whether it exists, and its text
  last,      \* the latest run: what it was given, read and wrote
  prev,      \* the run before it, in brief
  runs,      \* runs the model still allows
  edits,     \* directory changes the model still allows
  call       \* the latest call of a function on its own: arguments, result

vars == <<dir, pillow, yaml, isdir, manifest, last, prev, runs, edits, call>>

(* ------------------------------ bounds --------------------------------- *)
MaxRuns == 1
MaxReruns == 2
MaxEdits == 1
MaxBody == 3
MaxHistoryRuns == 3
MaxHistoryEdits == 2

(* --------------------------- YAML values ------------------------------- *)
Absent == [k |-> "absent", s |-> "", n |-> 0, l |-> <<>>]
Null == [k |-> "null", s |-> "", n |-> 0, l |-> <<>>]
Str(x) == [k |-> "str", s |-> x, n |-> 0, l |-> <<>>]
Num(i) == [k |-> "int", s |-> "", n |-> i, l |-> <<>>]
List(q) == [k |-> "list", s |-> "", n |-> 0, l |-> q]
Bool(b) == [k |-> "bool", s |-> "", n |-> IF b THEN 1 ELSE 0, l |-> <<>>]

\* Python's `v in (None, "", [])`, for a key that is present.
IsEmpty(v) == \/ v.k = "null"
              \/ (v.k = "str" /\ v.s = "")
              \/ (v.k = "list" /\ v.l = <<>>)

\* Python's `v in (None, "")`.
IsNoneOrEmptyStr(v) == v.k = "null" \/ (v.k = "str" /\ v.s = "")

\* int(v): [ok, n]; ok is FALSE where int() raises TypeError or ValueError.
IntOf(v) ==
  CASE v.k = "int" -> [ok |-> TRUE, n |-> v.n]
    [] v.k = "bool" -> [ok |-> TRUE, n |-> v.n]
    [] v.k = "str" /\ v.s = "7" -> [ok |-> TRUE, n |-> 7]
    [] OTHER -> [ok |-> FALSE, n |-> 0]

NoParams == [date |-> Absent, location |-> Absent, tags |-> Absent,
             weight |-> Absent, cover |-> Absent]

(* ------------------------------ text ----------------------------------- *)
Tok(t) == [t |-> t, v |-> <<>>]
D == Tok("D")
NL == Tok("n")
SP == Tok("s")
A == Tok("a")
E == Tok("E")
Y(front) == [t |-> "Y", v |-> front]

FRONT_MATTER_DELIM == <<D>>

IsSpace(tok) == tok.t = "s" \/ tok.t = "n"

\* str.strip()
RECURSIVE lstrip(_)
lstrip(text) ==
  IF text # <<>> /\ IsSpace(Head(text)) THEN lstrip(Tail(text)) ELSE text

RECURSIVE rstrip(_)
rstrip(text) ==
  IF text # <<>> /\ IsSpace(text[Len(text)])
  THEN rstrip(SubSeq(text, 1, Len(text) - 1)) ELSE text

strip(text) == rstrip(lstrip(text))

\* The index of the first line break of text, 0 when it has none.
RECURSIVE FirstBreak(_, _)
FirstBreak(text, i) ==
  IF i > Len(text) THEN 0
  ELSE IF text[i].t = "n" THEN i ELSE FirstBreak(text, i + 1)

\* str.splitlines(): a final line break opens no further line.
RECURSIVE splitlines(_)
RECURSIVE split_at(_, _)
split_at(text, i) ==
  IF i = 0 THEN <<text>>
  ELSE <<SubSeq(text, 1, i - 1)>> \o splitlines(SubSeq(text, i + 1, Len(text)))

splitlines(text) ==
  IF text = <<>> THEN <<>>
  ELSE split_at(text, FirstBreak(text, 1))

\* "\n".join(lines)
RECURSIVE join(_)
join(lines) ==
  IF lines = <<>> THEN <<>>
  ELSE IF Len(lines) = 1 THEN lines[1]
  ELSE lines[1] \o <<NL>> \o join(Tail(lines))

(* ------------------------------ codec ---------------------------------- *)
\* yaml.safe_load(fm_text): kind "map" (a mapping, in front), "other" (a
\* value that is no mapping) or "error" (the parser raises).
load_stripped(body) ==
  IF \E i \in 1..Len(body) : body[i].t = "E"
  THEN [kind |-> "error", front |-> <<>>]
  ELSE IF Len(body) = 1 /\ body[1].t = "Y"
  THEN [kind |-> "map", front |-> body[1].v]
  ELSE IF \E i \in 1..Len(body) : body[i].t = "Y"
  THEN [kind |-> "error", front |-> <<>>]
  ELSE [kind |-> "other", front |-> <<>>]

safe_load(fm_text) == load_stripped(strip(fm_text))

\* The index of the first delimiter line among lines[i..], 0 when none.
RECURSIVE FindDelim(_, _)
FindDelim(lines, i) ==
  IF i > Len(lines) THEN 0
  ELSE IF strip(lines[i]) = FRONT_MATTER_DELIM THEN i
  ELSE FindDelim(lines, i + 1)

\* gen_index.py:65-70, the closing delimiter found at lines[end_idx].
parse_header(data, rest) ==
  [kind |-> data.kind, front |-> data.front, rest |-> rest]

split_closed(lines, fm_text, end_idx) ==
  parse_header(IF strip(fm_text) # <<>> THEN safe_load(fm_text)
               ELSE [kind |-> "map", front |-> <<>>],
               join(SubSeq(lines, end_idx + 1, Len(lines))))

split_lines(text, lines, end_idx) ==
  IF end_idx = 0
  THEN [kind |-> "map", front |-> <<>>, rest |-> text]
  ELSE split_closed(lines, join(SubSeq(lines, 2, end_idx - 1)), end_idx)

split_text(text, lines) ==
  IF Len(lines) >= 1 /\ strip(lines[1]) = FRONT_MATTER_DELIM
  THEN split_lines(text, lines, FindDelim(lines, 2))
  ELSE [kind |-> "map", front |-> <<>>, rest |-> text]

\* split_front_matter(text): [kind, front, rest]; kind as safe_load gives it
\* ("map" with an empty front where the code returns {}).
split_front_matter(text) == split_text(text, splitlines(text))

\* join_front_matter(front)
join_front_matter(front) == <<D, NL, Y(front), NL, D, NL>>

\* gen_index.py:300-302
append_body(output_text, trailing_body) ==
  IF strip(trailing_body) # <<>>
  THEN IF output_text[Len(output_text)].t = "n"
       THEN output_text \o trailing_body
       ELSE output_text \o <<NL>> \o trailing_body
  ELSE output_text

compose(front, trailing_body) ==
  append_body(join_front_matter(front), trailing_body)

(* ---------------------------- directory -------------------------------- *)
\* The names a directory entry can have, in ascending order of Python's
\* string comparison (the order sorted() gives).
FileNames == <<"a.jpg", "b.png", "c.jpg", "d.jpg", "n.txt">>

IMAGE_EXTS == {".jpg", ".jpeg", ".png", ".JPG", ".JPEG", ".PNG"}

\* Path(name).suffix
Suffix(name) ==
  CASE name = "a.jpg" -> ".jpg"
    [] name = "b.png" -> ".png"
    [] name = "c.jpg" -> ".jpg"
    [] name = "d.jpg" -> ".jpg"
    [] OTHER -> ".txt"

\* Path(name).stem
Stem(name) ==
  CASE name = "a.jpg" -> "a"
    [] name = "b.png" -> "b"
    [] name = "c.jpg" -> "c"
    [] name = "d.jpg" -> "d"
    [] OTHER -> "n"

\* Path.is_file(): d.jpg is a subdirectory.
IsFile(name) == name # "d.jpg"

\* What the filesystem and the image decoder give for a file: whether
\* Image.open succeeds, the EXIF tags ("" when the tag is absent), the
\* location the GPS tags convert to ("" when they give none), the file's
\* last-modified date ("" when stat() raises); and whether an exception is
\* raised later inside the `with` block: "date" after the date was taken from
\* the tags, "gps" after the location was, "" when none is.
FileInfo(name) ==
  CASE name = "a.jpg" ->
         [open_ok |-> TRUE, DateTimeOriginal |-> "2020:01:02 10:00:00",
          DateTime |-> "2021:03:04 11:00:00", CreateDate |-> "",
          gps |-> "12.500000,77.250000", mtime |-> "2024-05-05",
          error_after |-> ""]
    [] name = "b.png" ->
         [open_ok |-> TRUE, DateTimeOriginal |-> "", DateTime |-> "",
          CreateDate |-> "", gps |-> "", mtime |-> "2024-06-06",
          error_after |-> ""]
    [] OTHER ->
         [open_ok |-> FALSE, DateTimeOriginal |-> "", DateTime |-> "",
          CreateDate |-> "", gps |-> "", mtime |-> "2024-07-07",
          error_after |-> ""]

\* The subsequence of FileNames whose names are in S: sorted(S).
sorted(S) == SelectSeq(FileNames, LAMBDA x : x \in S)

\* list_images with the test of the extension left out.
list_images_any_suffix(d) == sorted({p \in d : IsFile(p)})

\* list_images(dir_path): the names, sorted.
list_images(d) ==
  sorted({p \in d : IsFile(p) /\ Suffix(p) \in IMAGE_EXTS})

(* ---------------------------- extractor -------------------------------- *)
\* re.match(r"(\d{4}):(\d{2}):(\d{2})", value) and the date it formats;
\* "" when there is no match.
ExifDate(value) ==
  CASE value = "2020:01:02 10:00:00" -> "2020-01-02"
    [] value = "2021:03:04 11:00:00" -> "2021-03-04"
    [] value = "2022:05:06 12:00:00" -> "2022-05-06"
    [] OTHER -> ""

\* extract_metadata(img_path) with PIL importable (pil) or not.
\* gen_index.py:122-128: the first of the three tags whose value parses.
tagged_date(d1, d2, d3) == IF d1 # "" THEN d1 ELSE IF d2 # "" THEN d2 ELSE d3

\* gen_index.py:146-152: the handler overwrites the date with the
\* last-modified date, or leaves it when stat() raises too.
extract_failed(info, date_str, loc_str) ==
  [date |-> IF info.mtime # "" THEN info.mtime ELSE date_str, loc |-> loc_str]

extract_from(info, pil, tagged) ==
  IF ~pil THEN [date |-> "", loc |-> ""]
  ELSE IF ~info.open_ok THEN extract_failed(info, "", "")
  ELSE IF info.error_after = "date" THEN extract_failed(info, tagged, "")
  ELSE IF info.error_after = "gps" THEN extract_failed(info, tagged, info.gps)
  ELSE [date |-> IF tagged # "" THEN tagged ELSE info.mtime, loc |-> info.gps]

extract_info(info, pil) ==
  extract_from(info, pil,
               tagged_date(ExifDate(info.DateTimeOriginal),
                           ExifDate(info.DateTime), ExifDate(info.CreateDate)))

extract_metadata(name, pil) == extract_info(FileInfo(name), pil)

(* ------------------------- resource builder ---------------------------- *)
build_resource(name, common_tags, date_str, location_val) ==
  [src |-> name,
   title |-> Stem(name),
   params |-> [date |-> Str(date_str),
               location |-> IF location_val # "" THEN Str(location_val)
                            ELSE Absent,
               tags |-> IF common_tags # <<>> THEN List(common_tags)
                        ELSE Absent,
               weight |-> Absent,
               cover |-> Absent]]

\* build_with that prefers the default location to the extractor's.
build_with_default_first(name, common_tags, default_location, meta) ==
  build_resource(name, common_tags, meta.date,
                 IF default_location # "" THEN default_location ELSE meta.loc)

build_with(name, common_tags, default_location, meta) ==
  build_resource(name, common_tags, meta.date,
                 IF meta.loc # "" THEN meta.loc ELSE default_location)

build_resource_for_image(name, common_tags, default_location, pil) ==
  build_with(name, common_tags, default_location, extract_metadata(name, pil))

(* ----------------------------- reconciler ------------------------------ *)
\* front.get("resources", []) where the value is a list; <<>> otherwise
\* (gen_index.py:259-260 takes no entry from a value that is no list).
RECURSIVE KeyIndex(_, _, _)
KeyIndex(front, key, i) ==
  IF i > Len(front) THEN 0
  ELSE IF front[i].key = key THEN i ELSE KeyIndex(front, key, i + 1)

existing_resources(front) ==
  LET i == KeyIndex(front, "resources", 1)
  IN IF i # 0 /\ front[i].kind = "list" THEN front[i].list ELSE <<>>

\* The index of the entry of resources with this src, 0 when none.
RECURSIVE IndexOfSrc(_, _, _)
IndexOfSrc(resources, src, i) ==
  IF i > Len(resources) THEN 0
  ELSE IF resources[i].src = src THEN i
  ELSE IndexOfSrc(resources, src, i + 1)

\* resources_to_dict(resources): the dict as the sequence of its values in
\* insertion order.  Entries with no src (or an empty one) are left out; a
\* later entry with a src already seen takes the place of the earlier one.
RECURSIVE dict_from(_, _, _)
RECURSIVE dict_put(_, _, _, _)
dict_put(resources, i, acc, j) ==
  IF j # 0 THEN dict_from(resources, i + 1, [acc EXCEPT ![j] = resources[i]])
  ELSE dict_from(resources, i + 1, Append(acc, resources[i]))

dict_from(resources, i, acc) ==
  IF i > Len(resources) THEN acc
  ELSE IF resources[i].src = "" THEN dict_from(resources, i + 1, acc)
  ELSE dict_put(resources, i, acc, IndexOfSrc(acc, resources[i].src, 1))

resources_to_dict(resources) == dict_from(resources, 1, <<>>)

\* FillKey with the test of the existing value left out.
FillKey_overwrite(old, val) ==
  IF val.k # "absent" /\ ~IsEmpty(val) THEN val ELSE old

\* gen_index.py:279-283 for one key.
FillKey(old, val) ==
  IF old.k = "absent" \/ IsEmpty(old)
  THEN IF val.k # "absent" /\ ~IsEmpty(val) THEN val ELSE old
  ELSE old

\* merge_existing with line 276 left out: the title stays as it was.
merge_existing_keep_title(r, desired) ==
  [src |-> r.src,
   title |-> r.title,
   params |-> [date |-> FillKey(r.params.date, desired.params.date),
               location |-> FillKey(r.params.location, desired.params.location),
               tags |-> FillKey(r.params.tags, desired.params.tags),
               weight |-> r.params.weight,
               cover |-> r.params.cover]]

\* gen_index.py:275-284: the existing entry, its title forced and its
\* missing date, location and tags filled from the desired entry.
merge_existing(r, desired) ==
  [src |-> r.src,
   title |-> Stem(r.src),
   params |-> [date |-> FillKey(r.params.date, desired.params.date),
               location |-> FillKey(r.params.location, desired.params.location),
               tags |-> FillKey(r.params.tags, desired.params.tags),
               weight |-> r.params.weight,
               cover |-> r.params.cover]]

\* gen_index.py:274-286 for one src.
merge_found(desired, existing_by_src, j) ==
  IF j # 0 THEN merge_existing(existing_by_src[j], desired) ELSE desired

merge_one(desired, existing_by_src) ==
  merge_found(desired, existing_by_src,
              IndexOfSrc(existing_by_src, desired.src, 1))

\* gen_index.py:272-286: desired is in ascending order of src.
RECURSIVE merge_from(_, _, _)
merge_from(desired, existing_by_src, i) ==
  IF i > Len(desired) THEN <<>>
  ELSE <<merge_one(desired[i], existing_by_src)>>
         \o merge_from(desired, existing_by_src, i + 1)

merge(existing_by_src, desired) == merge_from(desired, existing_by_src, 1)

\* gen_index.py:198-206: max(existing_weights.values(), default=0), the
\* entries whose weight int() rejects left out.
RECURSIVE max_from(_, _, _, _)
RECURSIVE max_step(_, _, _, _, _)
max_step(previous, i, found, m, w) ==
  IF w.ok /\ (~found \/ w.n > m)
  THEN max_from(previous, i + 1, TRUE, w.n)
  ELSE max_from(previous, i + 1, found, m)

max_from(previous, i, found, m) ==
  IF i > Len(previous) THEN IF found THEN m ELSE 0
  ELSE max_step(previous, i, found, m, IntOf(previous[i].params.weight))

\* max_existing_weight with the existing weights ignored.
max_existing_weight_zero(previous_by_src) == 0

max_existing_weight(previous_by_src) == max_from(previous_by_src, 1, FALSE, 0)

\* gen_index.py:215
needs_weight(r) ==
  r.params.weight.k = "absent" \/ IsNoneOrEmptyStr(r.params.weight)

\* with_weight that gives every entry the weight 1.
with_weight_one(r, w) ==
  [src |-> r.src, title |-> r.title,
   params |-> [date |-> r.params.date, location |-> r.params.location,
               tags |-> r.params.tags, weight |-> Num(1),
               cover |-> r.params.cover]]

with_weight(r, w) ==
  [src |-> r.src, title |-> r.title,
   params |-> [date |-> r.params.date, location |-> r.params.location,
               tags |-> r.params.tags, weight |-> Num(w),
               cover |-> r.params.cover]]

\* gen_index.py:213-217, from entry i on.
RECURSIVE assign_weights(_, _, _)
assign_weights(resources, i, next_w) ==
  IF i > Len(resources) THEN <<>>
  ELSE IF needs_weight(resources[i])
  THEN <<with_weight(resources[i], next_w)>>
         \o assign_weights(resources, i + 1, next_w + 1)
  ELSE <<resources[i]>> \o assign_weights(resources, i + 1, next_w)

\* gen_index.py:186-189, update_weights: every entry is numbered anew.
RECURSIVE renumber(_, _)
renumber(resources, i) ==
  IF i > Len(resources) THEN <<>>
  ELSE <<with_weight(resources[i], i)>> \o renumber(resources, i + 1)

update_weights(sorted_resources, previous_by_src) == renumber(sorted_resources, 1)

update_weights_preserve_existing(sorted_resources, previous_by_src) ==
  assign_weights(sorted_resources, 1, max_existing_weight(previous_by_src) + 1)

\* r["params"].get("cover") is True
is_cover(r) == r.params.cover = Bool(TRUE)

with_cover(r) ==
  [src |-> r.src, title |-> r.title,
   params |-> [date |-> r.params.date, location |-> r.params.location,
               tags |-> r.params.tags, weight |-> r.params.weight,
               cover |-> Bool(TRUE)]]

\* ensure_cover with the scan for an existing cover left out.
ensure_cover_always(resources) ==
  IF resources # <<>> THEN <<with_cover(resources[1])>> \o Tail(resources)
  ELSE resources

\* ensure_cover that marks no entry.
ensure_cover_never(resources) == resources

\* ensure_cover that marks the last entry of the list.
ensure_cover_last(resources) ==
  LET any_cover == \E i \in 1..Len(resources) : is_cover(resources[i])
  IN IF ~any_cover /\ resources # <<>>
     THEN SubSeq(resources, 1, Len(resources) - 1)
            \o <<with_cover(resources[Len(resources)])>>
     ELSE resources

ensure_cover(resources) ==
  LET any_cover == \E i \in 1..Len(resources) : is_cover(resources[i])
  IN IF ~any_cover /\ resources # <<>>
     THEN <<with_cover(resources[1])>> \o Tail(resources)
     ELSE resources

\* set_resources that starts a new header.
set_resources_fresh(front, merged) ==
  <<[key |-> "resources", kind |-> "list", scalar |-> "", list |-> merged]>>

\* front["resources"] = merged: the key keeps its place, a new key goes last.
set_resources(front, merged) ==
  LET pair == [key |-> "resources", kind |-> "list", scalar |-> "",
               list |-> merged]
      i == KeyIndex(front, "resources", 1)
  IN IF i # 0 THEN [front EXCEPT ![i] = pair] ELSE Append(front, pair)

Scalar(key, value) ==
  [key |-> key, kind |-> "scalar", scalar |-> value, list |-> <<>>]

\* gen_index.py:244-256 with the default arguments, in a directory named
\* Kerala on 2026-01-01.
template_front ==
  <<Scalar("title", "Kerala"), Scalar("date", "2026-01-01"),
    Scalar("description", "Photos.")>>

(* ------------------------------- main ---------------------------------- *)
\* What one invocation is given: --common-tags (already split) and
\* --default-location.
\* parse_args(): the arguments of a run that writes, and of any run.
RunInputs ==
  [common_tags : {<<>>, <<"trip", "2024">>}, default_location : {"", "Goa"},
   dry_run : {FALSE}]

ModeInputs ==
  [common_tags : {<<>>, <<"trip", "2024">>}, default_location : {"", "Goa"},
   dry_run : BOOLEAN]

NoInput == [common_tags |-> <<>>, default_location |-> "", dry_run |-> FALSE]

NoRun ==
  [status |-> "none", inp |-> NoInput, prior |-> [exists |-> FALSE, text |-> <<>>],
   dir |-> {}, header |-> "map", loaded |-> <<>>, body |-> <<>>, front |-> <<>>,
   text |-> <<>>, code |-> 0, message |-> ""]

Brief(run) ==
  [status |-> run.status, inp |-> run.inp, dir |-> run.dir, text |-> run.text]

\* gen_index.py:234-256: [kind, front, rest] of the manifest, or the template.
load(m) ==
  IF m.exists THEN split_front_matter(m.text)
  ELSE [kind |-> "map", front |-> template_front, rest |-> <<>>]

\* gen_index.py:263-265: the desired entries, in the order of images.
RECURSIVE build_all(_, _, _)
build_all(images, inp, i) ==
  IF i > Len(images) THEN <<>>
  ELSE <<build_resource_for_image(images[i], inp.common_tags,
                                  inp.default_location, pillow)>>
         \o build_all(images, inp, i + 1)

\* gen_index.py:258-298: the header after the run.
reconcile_with(front, existing_by_src, desired_by_src) ==
  set_resources(front,
    ensure_cover(
      update_weights_preserve_existing(merge(existing_by_src, desired_by_src),
                                       existing_by_src)))

reconcile(front, images, inp) ==
  reconcile_with(front, resources_to_dict(existing_resources(front)),
                 build_all(images, inp, 1))

\* write_text that writes in a dry run too.
write_text_always(dry_run, old, output_text) ==
  [exists |-> TRUE, text |-> output_text]

\* gen_index.py:304-309: index.md after the run; a dry run returns before
\* index_path.write_text.
write_text(dry_run, old, output_text) ==
  IF dry_run THEN old ELSE [exists |-> TRUE, text |-> output_text]

\* gen_index.py:300-309: the text is composed, then printed after a banner
\* line (dry run) or written.  last.text is output_text in both cases.
Write(inp, parsed, front, out, output_text) ==
  /\ last' = [status |-> IF inp.dry_run THEN "dry" ELSE "ok",
              inp |-> inp, prior |-> manifest, dir |-> dir,
              header |-> parsed.kind, loaded |-> front, body |-> parsed.rest,
              front |-> out, text |-> output_text, code |-> 0, message |-> ""]
  /\ manifest' = write_text(inp.dry_run, manifest, output_text)

Rebuild(inp, parsed, front, out) ==
  Write(inp, parsed, front, out, compose(out, parsed.rest))

\* gen_index.py:240-241: a header that is no mapping counts as empty.
Merge(inp, parsed, front) ==
  Rebuild(inp, parsed, front, reconcile(front, list_images(dir), inp))

\* A header the YAML parser rejects ends the run with the exception, before
\* anything is written.
Loaded(inp, parsed) ==
  IF parsed.kind = "error"
  THEN /\ last' = [NoRun EXCEPT !.status = "crashed", !.inp = inp,
                                !.prior = manifest, !.dir = dir,
                                !.header = "error", !.code = 1,
                                !.message = "Traceback"]
       /\ UNCHANGED manifest
  ELSE Merge(inp, parsed, IF parsed.kind = "map" THEN parsed.front ELSE <<>>)

\* preconditions that tests only for the YAML module.
preconditions_yaml_only(has_yaml, is_dir) ==
  IF ~has_yaml THEN "PyYAML is required" ELSE ""

\* gen_index.py:221-225: the message main() dies with, "" when it goes on.
preconditions(has_yaml, is_dir) ==
  IF ~has_yaml THEN "PyYAML is required"
  ELSE IF ~is_dir THEN "Directory not found"
  ELSE ""

\* gen_index.py:35-37: the message goes to stderr and the process exits
\* with code 1.
die(inp, msg) ==
  /\ last' = [NoRun EXCEPT !.status = "died", !.inp = inp, !.prior = manifest,
                           !.dir = dir, !.code = 1, !.message = msg]
  /\ UNCHANGED manifest

Started(inp, msg) ==
  IF msg # "" THEN die(inp, msg) ELSE Loaded(inp, load(manifest))

\* main(): one whole run.
Run(inp) ==
  /\ runs > 0
  /\ runs' = runs - 1
  /\ prev' = Brief(last)
  /\ UNCHANGED <<dir, pillow, yaml, isdir, edits, call>>
  /\ Started(inp, preconditions(yaml, isdir))

\* An image file appears in the directory.
AddFile(name) ==
  /\ edits > 0
  /\ isdir
  /\ name \notin dir
  /\ dir' = dir \cup {name}
  /\ edits' = edits - 1
  /\ UNCHANGED <<pillow, yaml, isdir, manifest, last, prev, runs, call>>

\* An image file is removed (or renamed away).
RemoveFile(name) ==
  /\ edits > 0
  /\ isdir
  /\ name \in dir
  /\ dir' = dir \ {name}
  /\ edits' = edits - 1
  /\ UNCHANGED <<pillow, yaml, isdir, manifest, last, prev, runs, call>>

\* The image files that come and go; d.jpg and n.txt stay as they are.
Images == {"a.jpg", "b.png", "c.jpg"}

Next ==
  \/ \E inp \in RunInputs : Run(inp)
  \/ \E name \in Images : AddFile(name)
  \/ \E name \in Images : RemoveFile(name)

(* ------------------------- initial manifests --------------------------- *)
Entry(src, title, params) == [src |-> src, title |-> title, params |-> params]

\* Entries as a user may have written them: one field set, the rest absent.
DateValues == {Null, Str(""), List(<<>>), Str("2001-01-01")}
LocationValues == {Null, Str(""), List(<<>>), Str("Home")}
TagsValues == {Null, Str(""), List(<<>>), List(<<"custom">>)}
WeightValues == {Null, Str(""), List(<<>>), Num(5), Num(0), Num(-3),
                 Str("7"), Str("abc")}
CoverValues == {Bool(TRUE), Bool(FALSE)}

UserParams ==
  [date |-> Str("2001-01-01"), location |-> Str("Home"),
   tags |-> List(<<"custom">>), weight |-> Num(5), cover |-> Bool(TRUE)]

RichParams ==
  {NoParams, UserParams}
    \cup {[NoParams EXCEPT !.date = v] : v \in DateValues}
    \cup {[NoParams EXCEPT !.location = v] : v \in LocationValues}
    \cup {[NoParams EXCEPT !.tags = v] : v \in TagsValues}
    \cup {[NoParams EXCEPT !.weight = v] : v \in WeightValues}
    \cup {[NoParams EXCEPT !.cover = v] : v \in CoverValues}

\* Weight and cover together, for lists of two entries.
FirstParams ==
  {[NoParams EXCEPT !.weight = w, !.cover = c] :
     w \in {Absent, Num(5)}, c \in {Absent, Bool(TRUE)}}

SecondParams ==
  {[NoParams EXCEPT !.weight = w, !.cover = c] :
     w \in {Absent, Num(5), Num(2)}, c \in {Absent, Bool(TRUE)}}

\* Lists of one entry (also one with no src) and of two entries (which may
\* name the same file twice).
ResourceLists ==
  {<<>>, <<Entry("", "Sunset", UserParams)>>}
    \cup {<<Entry(src, "Sunset", p)>> : src \in {"a.jpg", "b.png"}, p \in RichParams}
    \cup {<<Entry(s1, Stem(s1), p1), Entry(s2, "Sunset", p2)>> :
            s1 \in {"a.jpg", "b.png"}, s2 \in {"a.jpg", "b.png"},
            p1 \in FirstParams, p2 \in SecondParams}

Resources(list) ==
  [key |-> "resources", kind |-> "list", scalar |-> "", list |-> list]

\* Headers: resources between two other keys; and, for one list, a header
\* with no resources key and one whose resources value is no list.
Fronts ==
  {<<Scalar("title", "Trip"), Resources(list), Scalar("draft", "true")>> :
     list \in ResourceLists}
    \cup {<<Scalar("title", "Trip")>>,
          <<Scalar("title", "Trip"), Scalar("resources", "none")>>}

Document(header, body) == <<D, NL>> \o header \o <<NL, D, NL>> \o body

\* Manifests of the reconciler's cases (a body that a run leaves as it is),
\* and three whose header is not a mapping.
ReconcileTexts ==
  {Document(<<Y(f)>>, <<A, NL, A>>) : f \in Fronts}
    \cup {Document(<<E>>, <<A>>), Document(<<A>>, <<A>>), <<A, NL>>}

ReconcileDirs == {S \cup {"d.jpg", "n.txt"} : S \in SUBSET Images}

NoCall ==
  [kind |-> "none", infos |-> <<>>, metas |-> <<>>, name |-> "",
   common_tags |-> <<>>, default_location |-> "",
   entry |-> [src |-> "", title |-> "", params |-> NoParams]]

Init ==
  /\ dir \in ReconcileDirs
  /\ manifest \in
       {[exists |-> FALSE, text |-> <<>>]}
         \cup {[exists |-> TRUE, text |-> t] : t \in ReconcileTexts}
  /\ pillow \in BOOLEAN
  /\ yaml = TRUE
  /\ isdir = TRUE
  /\ last = NoRun
  /\ prev = Brief(NoRun)
  /\ runs = MaxRuns
  /\ edits = MaxEdits
  /\ call = NoCall

Spec == Init /\ [][Next]_vars

(* --------------------- manifests of the codec's cases ------------------ *)
\* Every text of at most n tokens over the delimiter, the line break, the
\* space and the letter.
RECURSIVE Texts(_)
Texts(n) ==
  IF n = 0 THEN {<<>>}
  ELSE Texts(n - 1)
         \cup {Append(t, tok) : t \in {u \in Texts(n - 1) : Len(u) = n - 1},
                                tok \in {D, NL, SP, A}}

CodecFront ==
  <<Scalar("title", "Trip"), Resources(<<Entry("a.jpg", "Sunset", UserParams)>>)>>

\* What stands between the delimiters: a mapping, text the YAML parser
\* rejects, text that is a YAML scalar, nothing but a space.
Headers == {<<Y(CodecFront)>>, <<E>>, <<A>>, <<SP>>}

\* Short texts (with no header, or with an opening delimiter and no closing
\* one, or with an empty header), documents with each header and each short
\* text as body, and each header left unclosed.
CodecTexts ==
  Texts(MaxBody)
    \cup {Document(h, body) : h \in Headers, body \in Texts(MaxBody)}
    \cup {<<D, NL>> \o h \o tail : h \in Headers, tail \in {<<>>, <<NL>>, <<NL, A, NL>>}}

InitCodec ==
  /\ dir = {"a.jpg", "b.png", "n.txt"}
  /\ pillow = TRUE
  /\ yaml = TRUE
  /\ isdir = TRUE
  /\ manifest \in {[exists |-> TRUE, text |-> t] : t \in CodecTexts}
  /\ last = NoRun
  /\ prev = Brief(NoRun)
  /\ runs = MaxReruns
  /\ edits = 0
  /\ call = NoCall

\* Runs one after the other on a directory that does not change.
NextRun == \E inp \in RunInputs : Run(inp)

SpecCodec == InitCodec /\ [][NextRun]_vars

\* Runs on the manifests and directories of Init, the directory left as it
\* is.
SpecRuns == Init /\ [][NextRun]_vars

(* ------------------ the extractor and the builder alone ---------------- *)
\* Files as the decoder may find them: opening fails or not, each tag absent,
\* unparseable or a timestamp, GPS data or none, stat() failing or not, an
\* exception later in the decoding or none.
FileInfos ==
  [open_ok : BOOLEAN,
   DateTimeOriginal : {"", "garbage", "2020:01:02 10:00:00"},
   DateTime : {"", "2021:03:04 11:00:00"},
   CreateDate : {"", "2022:05:06 12:00:00"},
   gps : {"", "12.500000,77.250000"},
   mtime : {"", "2024-05-05"},
   error_after : {"", "date", "gps"}]

\* A sound file and three that fail, to be decoded one after the other.
PairInfos ==
  {info \in FileInfos :
     /\ info.DateTimeOriginal = "2020:01:02 10:00:00" /\ info.DateTime = ""
     /\ info.CreateDate = "" /\ info.gps # "" /\ info.mtime # ""
     /\ (info.open_ok \/ info.error_after = "")}

\* gen_index.py:264-265, 156: extract_metadata for each file in turn.
Extract(infos) ==
  /\ call' = [NoCall EXCEPT !.kind = "extract", !.infos = infos,
                            !.metas = [k \in 1..Len(infos) |->
                                         extract_info(infos[k], pillow)]]
  /\ UNCHANGED <<dir, pillow, yaml, isdir, manifest, last, prev, runs, edits>>

\* build_resource_for_image for one file.
Build(name, common_tags, default_location) ==
  /\ call' = [NoCall EXCEPT
                !.kind = "build", !.name = name, !.common_tags = common_tags,
                !.default_location = default_location,
                !.metas = <<extract_metadata(name, pillow)>>,
                !.entry = build_resource_for_image(name, common_tags,
                                                   default_location, pillow)]
  /\ UNCHANGED <<dir, pillow, yaml, isdir, manifest, last, prev, runs, edits>>

TagLists == {<<>>, <<"trip", "2024">>, <<"2024", "trip">>}

InitCalls ==
  /\ dir = Images
  /\ pillow \in BOOLEAN
  /\ yaml = TRUE
  /\ isdir = TRUE
  /\ manifest = [exists |-> FALSE, text |-> <<>>]
  /\ last = NoRun
  /\ prev = Brief(NoRun)
  /\ runs = 0
  /\ edits = 0
  /\ call = NoCall

NextCall ==
  \/ \E info \in FileInfos : Extract(<<info>>)
  \/ \E i1 \in PairInfos : \E i2 \in PairInfos : Extract(<<i1, i2>>)
  \/ \E name \in Images : \E common_tags \in TagLists :
       \E default_location \in {"", "Goa"} :
         Build(name, common_tags, default_location)

SpecCalls == InitCalls /\ [][NextCall]_vars

(* ----------------------- histories of a gallery ------------------------ *)
\* No index.md yet; runs and changes of the directory follow in any order,
\* and nobody edits index.md.
InitHistory ==
  /\ dir \in ReconcileDirs
  /\ pillow = TRUE
  /\ yaml = TRUE
  /\ isdir = TRUE
  /\ manifest = [exists |-> FALSE, text |-> <<>>]
  /\ last = NoRun
  /\ prev = Brief(NoRun)
  /\ runs = MaxHistoryRuns
  /\ edits = MaxHistoryEdits
  /\ call = NoCall

SpecHistory == InitHistory /\ [][Next]_vars

(* ------------------- machines and modes of a run ----------------------- *)
\* Manifests for the runs that die, crash, print or write.
ModeTexts ==
  {Document(<<Y(CodecFront)>>, <<A, NL, A>>), Document(<<E>>, <<A>>), <<A, NL>>}

\* Machines with and without the YAML module, targets that are a directory
\* (with or without index.md) and targets that are none.
InitModes ==
  /\ yaml \in BOOLEAN
  /\ isdir \in BOOLEAN
  /\ pillow = TRUE
  /\ dir \in IF isdir THEN ReconcileDirs ELSE {{}}
  /\ manifest \in
       {[exists |-> FALSE, text |-> <<>>]}
         \cup {[exists |-> TRUE, text |-> t] : t \in IF isdir THEN ModeTexts ELSE {}}
  /\ last = NoRun
  /\ prev = Brief(NoRun)
  /\ runs = MaxReruns
  /\ edits = 0
  /\ call = NoCall

\* Runs, dry or not, one after the other.
NextMode == \E inp \in ModeInputs : Run(inp)

SpecModes == InitModes /\ [][NextMode]_vars

(* ======================= properties of a run =========================== *)
Ran == last.status = "ok"

\* The resources list of a header, <<>> when it has none.
ResourcesOf(front) ==
  IF \E i \in 1..Len(front) : front[i].key = "resources" /\ front[i].kind = "list"
  THEN front[CHOOSE i \in 1..Len(front) : front[i].key = "resources"].list
  ELSE <<>>

\* The entries the run read from the manifest, and the entries it wrote.
Prior == ResourcesOf(last.loaded)
Output == ResourcesOf(last.front)

SrcsOf(resources) == {resources[i].src : i \in 1..Len(resources)}
Rank(name) == CHOOSE i \in 1..Len(FileNames) : FileNames[i] = name
ImagesOnDisk == {x \in last.dir : IsFile(x) /\ Suffix(x) \in IMAGE_EXTS}
OutputOf(src) == Output[CHOOSE i \in 1..Len(Output) : Output[i].src = src]

\* Prior[i] is the entry the run keeps for its src: it has a src and no
\* later entry of the list has the same one.
Retained(i) ==
  /\ Prior[i].src # ""
  /\ \A j \in (i + 1)..Len(Prior) : Prior[j].src # Prior[i].src

HasValue(v) == v.k # "absent" /\ ~IsEmpty(v)

\* C3: the src values of the output list are the image files of the
\* directory, each once, in ascending order; so a prior entry whose file is
\* gone is absent, and a file listed twice before is listed once.
C3_KeysAndOrder ==
  Ran =>
    /\ SrcsOf(Output) = ImagesOnDisk
    /\ Len(Output) = Cardinality(ImagesOnDisk)
    /\ \A i \in 1..Len(Output) : \A j \in 1..Len(Output) :
         i < j => Rank(Output[i].src) < Rank(Output[j].src)

\* A run whose prior manifest listed a.jpg twice, with a.jpg and c.jpg on
\* disk and b.png not.
C3_Witness ==
  /\ Ran
  /\ Len(Prior) = 2 /\ Prior[1].src = "a.jpg" /\ Prior[2].src = "a.jpg"
  /\ ImagesOnDisk = {"a.jpg", "c.jpg"}
  /\ Len(Output) = 2

\* A run whose prior manifest had an entry for b.png, which is not on disk.
C3_WitnessDeleted ==
  /\ Ran
  /\ "b.png" \in SrcsOf(Prior)
  /\ "b.png" \notin last.dir
  /\ "b.png" \notin SrcsOf(Output)
  /\ Output # <<>>

\* The entries of the prior manifest that the run keeps and whose file is on
\* disk.
KeptOnDisk == {i \in 1..Len(Prior) : Retained(i) /\ Prior[i].src \in ImagesOnDisk}

\* C2 as stated: every prior entry whose file is on disk keeps each of date,
\* location, tags, weight and cover that had a non-empty value.
C2_AsStated ==
  Ran =>
    \A i \in 1..Len(Prior) :
      Prior[i].src \in ImagesOnDisk =>
        \A f \in {"date", "location", "tags", "weight", "cover"} :
          HasValue(Prior[i].params[f]) =>
            OutputOf(Prior[i].src).params[f] = Prior[i].params[f]

\* C2, amended: the entry the run keeps for a src (the last one listed with
\* it) whose file is on disk keeps each of date, location, tags and weight
\* that had a non-empty value, and keeps cover when it was true.
C2_Preserved ==
  Ran =>
    \A i \in KeptOnDisk :
      /\ \A f \in {"date", "location", "tags", "weight"} :
           HasValue(Prior[i].params[f]) =>
             OutputOf(Prior[i].src).params[f] = Prior[i].params[f]
      /\ Prior[i].params.cover = Bool(TRUE) =>
           OutputOf(Prior[i].src).params.cover = Bool(TRUE)

\* A run with PIL, common tags and a default location over a.jpg (which has
\* an EXIF date and GPS data), whose prior entry had all five fields set.
C2_Witness ==
  /\ Ran /\ pillow
  /\ last.inp.common_tags # <<>> /\ last.inp.default_location # ""
  /\ \E i \in KeptOnDisk : Prior[i].src = "a.jpg" /\ Prior[i].params = UserParams
  /\ OutputOf("a.jpg").params = UserParams

\* The places in the output of the entries made for files that had no entry
\* in the prior manifest.
NewEntries == {i \in 1..Len(Output) : Output[i].src \notin SrcsOf(Prior)}

\* C4 as stated: a new entry's weight is above every integer weight of the
\* prior manifest, and new weights increase in filename order.
C4_AsStated ==
  Ran =>
    /\ \A i \in NewEntries :
         /\ Output[i].params.weight.k = "int"
         /\ \A j \in 1..Len(Prior) :
              Prior[j].params.weight.k = "int" =>
                Output[i].params.weight.n > Prior[j].params.weight.n
    /\ \A i \in NewEntries : \A j \in NewEntries :
         i < j => Output[i].params.weight.n < Output[j].params.weight.n

\* C4, amended: a new entry's weight is above every weight int() accepts
\* among the entries the run keeps (for each src the last one listed with
\* it; entries with no src are not kept), and new weights increase in
\* filename order.
C4_NewWeights ==
  Ran =>
    /\ \A i \in NewEntries :
         /\ Output[i].params.weight.k = "int"
         /\ \A j \in 1..Len(Prior) :
              (Retained(j) /\ IntOf(Prior[j].params.weight).ok) =>
                Output[i].params.weight.n > IntOf(Prior[j].params.weight).n
    /\ \A i \in NewEntries : \A j \in NewEntries :
         i < j => Output[i].params.weight.n < Output[j].params.weight.n

\* The spec's scenario: b.png had weight 5; a.jpg and c.jpg are new and get
\* 6 and 7.
C4_Witness ==
  /\ Ran
  /\ Len(Prior) = 1 /\ Prior[1].src = "b.png" /\ Prior[1].params.weight = Num(5)
  /\ ImagesOnDisk = {"a.jpg", "b.png", "c.jpg"}
  /\ OutputOf("a.jpg").params.weight = Num(6)
  /\ OutputOf("b.png").params.weight = Num(5)
  /\ OutputOf("c.jpg").params.weight = Num(7)

CoverSrcs(resources) ==
  {resources[i].src : i \in {j \in 1..Len(resources) :
                               resources[j].params.cover = Bool(TRUE)}}

CoverCount(resources) ==
  Cardinality({j \in 1..Len(resources) : resources[j].params.cover = Bool(TRUE)})

\* C5 as stated: at most one output entry has cover = true, and every prior
\* entry with cover = true whose file is on disk still has it.
C5_AsStated ==
  Ran =>
    /\ CoverCount(Output) <= 1
    /\ \A i \in 1..Len(Prior) :
         (Prior[i].params.cover = Bool(TRUE) /\ Prior[i].src \in ImagesOnDisk) =>
           OutputOf(Prior[i].src).params.cover = Bool(TRUE)

\* C5, amended: an entry the run keeps, with its file on disk, that had
\* cover = true still has it; the run sets cover = true on at most one entry
\* and on none when a kept entry had it; so the output has at most one cover
\* when at most one kept entry had one.
C5_Cover ==
  Ran =>
    LET kept == {Prior[i].src : i \in {j \in KeptOnDisk :
                                         Prior[j].params.cover = Bool(TRUE)}}
    IN /\ kept \subseteq CoverSrcs(Output)
       /\ Cardinality(CoverSrcs(Output) \ kept) <= 1
       /\ kept # {} => CoverSrcs(Output) = kept
       /\ Cardinality(kept) <= 1 => CoverCount(Output) <= 1

\* b.png had cover = true, a.jpg sorts before it and is on disk: the cover
\* stays on b.png alone.
C5_Witness ==
  /\ Ran
  /\ \E i \in KeptOnDisk : Prior[i].src = "b.png" /\ Prior[i].params.cover = Bool(TRUE)
  /\ "a.jpg" \in ImagesOnDisk
  /\ CoverSrcs(Output) = {"b.png"}

\* The manifest the run read is the opening delimiter, a mapping, the closing
\* delimiter and a body.
StructuredPrior ==
  /\ last.prior.exists
  /\ Len(last.prior.text) >= 5
  /\ SubSeq(last.prior.text, 1, 2) = <<D, NL>>
  /\ last.prior.text[3].t = "Y"
  /\ SubSeq(last.prior.text, 4, 5) = <<NL, D>>
  /\ Len(last.prior.text) > 5 => last.prior.text[6] = NL

PriorHeader == last.prior.text[3].v

OtherKeys(front) == SelectSeq(front, LAMBDA pair : pair.key # "resources")
KeysOf(front) == [i \in 1..Len(front) |-> front[i].key]

\* C6: when the prior manifest has a structured header, the output header
\* holds every other key with its value, in the same order, and differs from
\* it in the resources key alone (added last when it was missing).
C6_PassThrough ==
  (Ran /\ StructuredPrior) =>
    /\ OtherKeys(last.front) = OtherKeys(PriorHeader)
    /\ KeysOf(last.front) =
         IF \E i \in 1..Len(PriorHeader) : PriorHeader[i].key = "resources"
         THEN KeysOf(PriorHeader)
         ELSE Append(KeysOf(PriorHeader), "resources")

\* A run that rebuilt the resources of a header with a key before and a key
\* after them.
C6_Witness ==
  /\ Ran /\ StructuredPrior
  /\ KeysOf(PriorHeader) = <<"title", "resources", "draft">>
  /\ Output # ResourcesOf(PriorHeader)
  /\ Output # <<>>

\* C10: every output entry's title is its src without the extension.
C10_Title ==
  Ran => \A i \in 1..Len(Output) : Output[i].title = Stem(Output[i].src)

\* A kept entry whose title had been set to something else.
C10_Witness ==
  /\ Ran
  /\ \E i \in KeptOnDisk :
       /\ Prior[i].src = "a.jpg" /\ Prior[i].title = "Sunset"
       /\ OutputOf("a.jpg").title = "a"

C14_FirstGetsCover ==
  (/\ Ran
   /\ \A i \in KeptOnDisk : Prior[i].params.cover # Bool(TRUE)) =>
    /\ Output # <<>> => CoverSrcs(Output) = {Output[1].src}
    /\ CoverCount(Output) = IF Output = <<>> THEN 0 ELSE 1
    /\ \A k \in 2..Len(Output) :
         Output[k].params.cover \in {Absent, Bool(FALSE)}

\* a.jpg had weight 5 and b.png weight 2, neither was the cover: the cover
\* goes to a.jpg, first by name and second by weight.
C14_Witness ==
  /\ Ran
  /\ Len(Prior) = 2
  /\ Prior[1].src = "a.jpg" /\ Prior[1].params.weight = Num(5)
  /\ Prior[2].src = "b.png" /\ Prior[2].params.weight = Num(2)
  /\ {"a.jpg", "b.png"} \subseteq ImagesOnDisk
  /\ CoverSrcs(Output) = {"a.jpg"}
  /\ OutputOf("b.png").params.cover = Absent

\* The candidate entry of the last run for a file.
Fresh(src) ==
  build_resource_for_image(src, last.inp.common_tags,
                           last.inp.default_location, pillow)

\* C15: for a kept entry whose file is on disk, an empty string or empty
\* list as date, location or tags is replaced by the fresh value when there
\* is one, and an empty string or empty list as weight is replaced by a new
\* integer weight.
C15_AsStated ==
  Ran =>
    \A i \in KeptOnDisk :
      /\ \A f \in {"date", "location", "tags"} :
           Prior[i].params[f] \in {Str(""), List(<<>>)} =>
             OutputOf(Prior[i].src).params[f] =
               IF HasValue(Fresh(Prior[i].src).params[f])
               THEN Fresh(Prior[i].src).params[f]
               ELSE Prior[i].params[f]
      /\ Prior[i].params.weight \in {Str(""), List(<<>>)} =>
           OutputOf(Prior[i].src).params.weight.k = "int"

\* C16: after a run every output entry has a weight that is a positive
\* integer.
C16_AsStated ==
  Ran =>
    \A k \in 1..Len(Output) :
      /\ Output[k].params.weight.k = "int"
      /\ Output[k].params.weight.n > 0

(* ========================== modes of a run ============================= *)
\* C12: a run on a machine without the YAML module, or on a target that is
\* no directory, ends with a non-zero exit code and a message, has merged
\* nothing, and leaves index.md as it was (absent when it was absent).
C12_Fatal ==
  (last.status # "none" /\ (~yaml \/ ~isdir)) =>
    /\ last.status = "died"
    /\ last.code # 0
    /\ last.message # ""
    /\ last.front = <<>> /\ last.text = <<>>
    /\ manifest = last.prior

\* Two runs without the YAML module in a directory that has an index.md and
\* images.
C12_Witness ==
  /\ ~yaml /\ isdir
  /\ last.status = "died" /\ prev.status = "died"
  /\ "a.jpg" \in dir
  /\ manifest.exists

\* A run on a target that is no directory, with the YAML module.
C12_WitnessNoDir ==
  /\ yaml /\ ~isdir
  /\ last.status = "died"
  /\ ~manifest.exists

\* C13: a dry run leaves index.md as it was, and the text it prints is the
\* text that the next run, not dry, with the same arguments and directory,
\* on the index.md the dry run left, writes.
C13_DryRun ==
  /\ last.status = "dry" => manifest = last.prior
  /\ (/\ prev.status = "dry" /\ last.status = "ok"
      /\ last.inp = [prev.inp EXCEPT !.dry_run = FALSE]
      /\ last.dir = prev.dir) =>
       last.text = prev.text

\* A dry run with no index.md, then a run that writes, with three images.
C13_Witness ==
  /\ prev.status = "dry" /\ last.status = "ok"
  /\ last.inp = [prev.inp EXCEPT !.dry_run = FALSE]
  /\ ~last.prior.exists
  /\ manifest = [exists |-> TRUE, text |-> prev.text]
  /\ Len(Output) = 3

(* ==================== the extractor and the builder ==================== *)
\* The date of the first of the three tags, in the order original-capture
\* time, modification time, creation time, whose value parses; "" when none
\* does.
FirstTagDate(info) ==
  IF ExifDate(info.DateTimeOriginal) # "" THEN ExifDate(info.DateTimeOriginal)
  ELSE IF ExifDate(info.DateTime) # "" THEN ExifDate(info.DateTime)
  ELSE ExifDate(info.CreateDate)

DecodingFails(info) == ~info.open_ok \/ info.error_after # ""

\* C17: for every file whose last-modified date can be read, the date the
\* extractor returns is the first tag date that parses when the decoding
\* succeeds and a tag parses, and the last-modified date otherwise; whatever
\* the file decoded before or after it.
C17_AsStated ==
  call.kind = "extract" =>
    \A k \in 1..Len(call.infos) :
      call.infos[k].mtime # "" =>
        call.metas[k].date =
          IF ~DecodingFails(call.infos[k]) /\ FirstTagDate(call.infos[k]) # ""
          THEN FirstTagDate(call.infos[k])
          ELSE call.infos[k].mtime

\* C18: the candidate entry has the extractor's location when there is one,
\* else the default location when there is one, else none; the common tags
\* in their order when there are any, else none; and no weight or cover.
C18_Builder ==
  call.kind = "build" =>
    /\ call.entry.params.location =
         IF call.metas[1].loc # "" THEN Str(call.metas[1].loc)
         ELSE IF call.default_location # "" THEN Str(call.default_location)
         ELSE Absent
    /\ call.entry.params.tags =
         IF call.common_tags # <<>> THEN List(call.common_tags) ELSE Absent
    /\ call.entry.params.weight = Absent
    /\ call.entry.params.cover = Absent

\* a.jpg has GPS data: built with a default location and tags 2024, trip,
\* it has its own location and the tags in that order.
C18_Witness ==
  /\ call.kind = "build" /\ call.name = "a.jpg" /\ pillow
  /\ call.default_location = "Goa"
  /\ call.common_tags = <<"2024", "trip">>
  /\ call.entry.params.location = Str("12.500000,77.250000")
  /\ call.entry.params.tags = List(<<"2024", "trip">>)

C20_OneCover ==
  (Ran /\ Output # <<>>) =>
    /\ CoverCount(Output) = 1
    /\ (\E i \in 1..Len(Prior) :
          Prior[i].params.cover = Bool(TRUE) /\ Prior[i].src \notin ImagesOnDisk) =>
         CoverSrcs(Output) = {Output[1].src}

\* a.jpg was the cover and is gone; b.png and c.jpg remain: b.png is the
\* cover.
C20_Witness ==
  /\ Ran
  /\ \E i \in 1..Len(Prior) :
       Prior[i].src = "a.jpg" /\ Prior[i].params.cover = Bool(TRUE)
  /\ ImagesOnDisk = {"b.png", "c.jpg"}
  /\ CoverSrcs(Output) = {"b.png"}

(* ===================== properties of the rewritten text ================ *)
Attempted == last.status # "none"

\* The last token of the line of text that starts at s.
RECURSIVE LineEnd(_, _)
LineEnd(text, s) ==
  IF s > Len(text) THEN Len(text)
  ELSE IF text[s] = NL THEN s - 1
  ELSE LineEnd(text, s + 1)

\* The places where a line of text starts.
LineStarts(text) ==
  {s \in 1..Len(text) : s = 1 \/ text[s - 1] = NL}

\* The line that starts at s is a delimiter line: --- and, around it, spaces.
IsDelimLine(text, s) ==
  \E k \in s..LineEnd(text, s) :
    /\ text[k] = D
    /\ \A m \in s..LineEnd(text, s) : m # k => text[m] = SP

Opens(text) == text # <<>> /\ IsDelimLine(text, 1)

ClosingStarts(text) == {s \in LineStarts(text) : s > 1 /\ IsDelimLine(text, s)}

Closed(text) == Opens(text) /\ ClosingStarts(text) # {}

\* The start of the first closing delimiter line of a closed text.
ClosingStart(text) ==
  CHOOSE s \in ClosingStarts(text) : \A u \in ClosingStarts(text) : s <= u

\* The text between the opening and the closing delimiter lines, and the
\* text after the line break that ends the closing delimiter line.
HeaderText(text) ==
  SubSeq(text, LineEnd(text, 1) + 2, ClosingStart(text) - 2)

BodyAfter(text) ==
  SubSeq(text, LineEnd(text, ClosingStart(text)) + 2, Len(text))

\* The header the run wrote, as text: it holds the resources key alone.
FreshHeader ==
  <<D, NL,
    Y(<<[key |-> "resources", kind |-> "list", scalar |-> "", list |-> Output]>>),
    NL, D, NL>>

\* C7 as stated: a manifest with no opening delimiter line, or with no
\* closing one, is rewritten as a fresh header followed by the whole
\* original text.
C7_AsStated ==
  (Attempted /\ last.prior.exists /\ ~Closed(last.prior.text)) =>
    /\ Ran
    /\ last.text = FreshHeader \o last.prior.text

\* C8: a manifest whose delimited header is not a mapping is rewritten, the
\* run not aborting, as a fresh header followed by the whole original text.
C8_AsStated ==
  (/\ Attempted /\ last.prior.exists /\ Closed(last.prior.text)
   /\ strip(HeaderText(last.prior.text)) # <<>>
   /\ safe_load(HeaderText(last.prior.text)).kind # "map") =>
    /\ Ran
    /\ last.text = FreshHeader \o last.prior.text

\* C9: with a well-formed header, the text after the closing delimiter line
\* of the rewritten file is the text after the closing delimiter line of the
\* file read.
C9_AsStated ==
  (/\ Ran /\ last.prior.exists /\ Closed(last.prior.text)
   /\ \/ strip(HeaderText(last.prior.text)) = <<>>
      \/ safe_load(HeaderText(last.prior.text)).kind = "map") =>
    BodyAfter(last.text) = BodyAfter(last.prior.text)

\* C1: a second run on the manifest the first run wrote, with the same
\* directory, common tags and default location, produces the same text.
C1_AsStated ==
  (/\ prev.status = "ok" /\ last.status = "ok"
   /\ last.inp = prev.inp /\ last.dir = prev.dir
   /\ last.prior = [exists |-> TRUE, text |-> prev.text]) =>
    last.text = prev.text

====
